---- MODULE Spec2Model ----
(***************************************************************************)
(* Model of pi-camera-connect's StreamCamera class: the lifecycle of the   *)
(* raspivid child process, the fan-out of its stdout chunks to the         *)
(* consumer streams, and the MJPEG frame extraction done by the stdout     *)
(* 'data' handler.                                                         *)
(*                                                                         *)
(* startCapture is an async promise executor with one await, so it is two  *)
(* steps: StartCapture (everything up to the await of getJpegSignature)    *)
(* and SignatureResolved / SignatureRejected (everything after it).  The   *)
(* event loop may run any other handler between the two.  Every other      *)
(* method and listener runs to completion and is one step.                 *)
(*                                                                         *)
(* A child process keeps delivering the output it has in flight after      *)
(* kill(), which stopCapture does not await.  The 'close' listener of      *)
(* line 244 only re-emits 'close' and is left out.                         *)
(***************************************************************************)
EXTENDS Integers, Sequences, FiniteSets, TLC

\* ------------------------------------------------------------------ bounds
MaxCalls   == 2     \* startCapture calls
MaxSessionCalls == 1 \* the same, in SpecFanOut, SpecLifecycle and SpecDemux
MaxStreams == 2     \* createStream calls
MaxChunks  == 2     \* stdout chunks delivered by all processes together
MaxDemuxChunks == 3 \* stdout chunks in the behaviours of SpecDemux
MaxTakes   == 1     \* takeImage calls
MaxErrors  == 1     \* error events raised by processes and pipes
MaxSpawnEvents == 4   \* events of the process of spawnPromise
MaxSessionEvents == 3 \* chunks, streams and errors together, in SpecRuntimeError

\* --------------------------------------------------------------- constants
H264  == "H264"
MJPEG == "MJPEG"

\* the byte sequence returned by getJpegSignature for a known model
JpegSignature == <<255, 216, 255, 219, 0, 132, 0>>

\* systemInfo.model as seen by getJpegSignature: one model of the switch,
\* and one that falls to its default branch
KnownModel   == "BCM2711"
UnknownModel == "Unknown"

\* stream.push(null)
Null == <<-1>>

Noise == <<65>>

\* stdout chunks the child process may deliver: a chunk that is one
\* signature, and a chunk holding two signatures
Chunks ==
  { JpegSignature,
    JpegSignature \o Noise \o JpegSignature }

\* the chunks of SpecDemux: those of Chunks, and a signature cut in two by
\* the chunk boundary at two places, with and without other bytes around it
DemuxChunks ==
  Chunks \cup { Noise \o SubSeq(JpegSignature, 1, 3),
                SubSeq(JpegSignature, 4, 7) \o Noise,
                SubSeq(JpegSignature, 1, 5),
                SubSeq(JpegSignature, 6, 7) }

\* the chunks the process of spawnPromise writes to stdout and to stderr
SpawnChunks == { << 111 >>, << 107, 10 >> }

VARIABLES
  codec,          \* this.options.codec
  systemModel,    \* (await si.system()).model
  childProcess,   \* this.childProcess: 0 is undefined, else the process id
  streams,        \* this.streams: the registry, a sequence of stream ids
  nCalls,         \* startCapture calls so far; call c spawns process c
  pc,             \* per call: "none", "await", "armed", "failed"
  promise,        \* per call: "none", "pending", "resolved", "rejected"
  killed,         \* per process: kill() has been called on it
  onceData,       \* per process: stdout.once('data') listener still attached
  onceError,      \* per process: once('error') listener still attached
  handlers,       \* per process: calls whose 'data'/error listeners are on it
  stdoutBuffer,   \* per call: the closure variable stdoutBuffer
  streamData,     \* per stream: everything pushed to it, in order
  nStreams,       \* streams created so far
  regAt,          \* per stream: Len(handled) when it was created
  delivered,      \* per process: stdout chunks it has delivered
  handled,        \* chunks handled by a 'data' handler, one per invocation
  seen,           \* per call: concatenation of the chunks its handler handled
  emitted,        \* per call: frames its handler emitted
  frames,         \* every 'frame' event, in order
  takes,          \* takeImage calls that returned a promise
  thrown,         \* takeImage calls that threw
  errLog,         \* error events raised so far: the source, the process,
                  \* the promise of its startCapture then, what became of it
  activeAtCall,   \* per call: a live process existed when it was made
  stdoutData,     \* spawnPromise: the stdout bytes concatenated so far
  stderrData,     \* spawnPromise: the stderr bytes concatenated so far
  spawnResult,    \* spawnPromise: its promise, [state, kind, data]
  spawnOnce,      \* spawnPromise: the once('error') listeners still attached
  stdoutClosed,   \* spawnPromise: stdout has emitted 'close'
  spawnEvents     \* spawnPromise: the events of the process so far

cameraVars == << codec, systemModel, childProcess, streams, nCalls, pc, promise,
           killed, onceData, onceError, handlers, stdoutBuffer, streamData,
           nStreams, regAt, delivered, handled, seen, emitted, frames, takes,
           thrown, errLog, activeAtCall >>

spawnVars == << stdoutData, stderrData, spawnResult, spawnOnce, stdoutClosed,
                spawnEvents >>

vars == << cameraVars, spawnVars >>

Calls     == 1..(IF MaxCalls > MaxSessionCalls THEN MaxCalls
                                                ELSE MaxSessionCalls)
StreamIds == 1..MaxStreams

\* the chunks "AAA" and "SIG1dataSIG2moredataSIG3", SIG the signature and
\* the other characters their character codes
ScenarioLead == << 65, 65, 65 >>
ScenarioFrame1 == JpegSignature \o << 49, 100, 97, 116, 97 >>
ScenarioFrame2 ==
  JpegSignature \o << 50, 109, 111, 114, 101, 100, 97, 116, 97 >>
ScenarioFrame3 == JpegSignature \o << 51 >>
ScenarioChunks ==
  { ScenarioLead, ScenarioFrame1 \o ScenarioFrame2 \o ScenarioFrame3 }

\* ----------------------------------------------------------------- helpers
Min(S) == CHOOSE x \in S : \A y \in S : x <= y

\* Buffer.indexOf(value, byteOffset): 0-based, -1 when absent
IndexOf(buf, value, byteOffset) ==
  LET hits == { i \in byteOffset..(Len(buf) - Len(value)) :
                  SubSeq(buf, i + 1, i + Len(value)) = value }
  IN  IF hits = {} THEN -1 ELSE Min(hits)

\* Buffer.slice(start) and Buffer.slice(start, end), 0-based, end exclusive
SliceFrom(buf, start) == SubSeq(buf, start + 1, Len(buf))
Slice(buf, start, end) == SubSeq(buf, start + 1, end)

\* a promise settles once: resolve/reject of a settled promise is a no-op
Settle(p, outcome) == IF p = "pending" THEN outcome ELSE p

InRegistry(s) == \E i \in 1..Len(streams) : streams[i] = s

\* PushAll pushing to the first stream of the registry only
PushFirst(sd, item) ==
  [s \in StreamIds |->
     IF streams # <<>> /\ streams[1] = s THEN Append(sd[s], item) ELSE sd[s]]

\* this.streams.forEach((innerStream) => innerStream.push(item))
PushAll(sd, item) ==
  [s \in StreamIds |-> IF InRegistry(s) THEN Append(sd[s], item) ELSE sd[s]]

\* getJpegSignature: resolves for the models of the switch, throws otherwise
SignatureKnown == systemModel = KnownModel

\* ExtractFrames without the slice that drops the bytes before the first
\* signature
RECURSIVE ExtractFramesKeepsLead(_, _)
ExtractFramesKeepsLead(buf, out) ==
  LET signatureIndex == IndexOf(buf, JpegSignature, 0)
  IN  IF signatureIndex = -1
      THEN [buf |-> buf, frames |-> out]
      ELSE LET nextSignatureIndex ==
                 IndexOf(buf, JpegSignature, Len(JpegSignature))
           IN  IF nextSignatureIndex = -1
               THEN [buf |-> buf, frames |-> out]
               ELSE ExtractFramesKeepsLead(
                      SliceFrom(buf, nextSignatureIndex),
                      Append(out, Slice(buf, 0, nextSignatureIndex)))

\* ExtractFrames leaving the loop after the first frame
ExtractFramesOnce(buf, out) ==
  LET signatureIndex == IndexOf(buf, JpegSignature, 0)
  IN  IF signatureIndex = -1
      THEN [buf |-> buf, frames |-> out]
      ELSE LET b1 == IF signatureIndex > 0
                     THEN SliceFrom(buf, signatureIndex) ELSE buf
               nextSignatureIndex ==
                 IndexOf(b1, JpegSignature, Len(JpegSignature))
           IN  IF nextSignatureIndex = -1
               THEN [buf |-> b1, frames |-> out]
               ELSE [buf |-> SliceFrom(b1, nextSignatureIndex),
                     frames |-> Append(out, Slice(b1, 0, nextSignatureIndex))]

\* ExtractFrames dropping the bytes before the first signature only when it
\* has found a second one
RECURSIVE ExtractFramesLateSlice(_, _)
ExtractFramesLateSlice(buf, out) ==
  LET signatureIndex == IndexOf(buf, JpegSignature, 0)
  IN  IF signatureIndex = -1
      THEN [buf |-> buf, frames |-> out]
      ELSE LET b1 == IF signatureIndex > 0
                     THEN SliceFrom(buf, signatureIndex) ELSE buf
               nextSignatureIndex ==
                 IndexOf(b1, JpegSignature, Len(JpegSignature))
           IN  IF nextSignatureIndex = -1
               THEN [buf |-> buf, frames |-> out]
               ELSE ExtractFramesLateSlice(
                      SliceFrom(b1, nextSignatureIndex),
                      Append(out, Slice(b1, 0, nextSignatureIndex)))

\* the while(true) loop of the 'data' handler: buf is stdoutBuffer after the
\* concat, out the frames emitted so far in this invocation
RECURSIVE ExtractFrames(_, _)
ExtractFrames(buf, out) ==
  LET signatureIndex == IndexOf(buf, JpegSignature, 0)
  IN  IF signatureIndex = -1
      THEN [buf |-> buf, frames |-> out]
      ELSE LET b1 == IF signatureIndex > 0
                     THEN SliceFrom(buf, signatureIndex) ELSE buf
               nextSignatureIndex ==
                 IndexOf(b1, JpegSignature, Len(JpegSignature))
           IN  IF nextSignatureIndex = -1
               THEN [buf |-> b1, frames |-> out]
               ELSE ExtractFrames(SliceFrom(b1, nextSignatureIndex),
                                  Append(out, Slice(b1, 0, nextSignatureIndex)))

\* EmitFrame with the listener of takeImage added by on(), not once(), and
\* handing every frame to its caller
EmitFrameOn(st, c, f) ==
  [st EXCEPT !.frames  = Append(@, f),
             !.emitted = [@ EXCEPT ![c] = Append(@, f)],
             !.takes   = [i \in DOMAIN @ |-> [@[i] EXCEPT !.result = f]]]

\* this.emit('frame', f) from the handler of call c: every once('frame')
\* listener of takeImage gets f and is removed
EmitFrame(st, c, f) ==
  [st EXCEPT !.frames  = Append(@, f),
             !.emitted = [@ EXCEPT ![c] = Append(@, f)],
             !.takes   = [i \in DOMAIN @ |->
                            IF @[i].listening
                            THEN [@[i] EXCEPT !.listening = FALSE, !.result = f]
                            ELSE @[i]]]

RECURSIVE EmitAll(_, _, _)
EmitAll(st, c, fs) ==
  IF fs = <<>> THEN st ELSE EmitAll(EmitFrame(st, c, Head(fs)), c, Tail(fs))

\* DataHandler scanning the chunk alone, not the accumulated buffer
DataHandlerNoConcat(st, c, data) ==
  LET s1 == [st EXCEPT !.streamData = PushAll(@, data),
                       !.handled    = Append(@, data)]
  IN  IF codec # MJPEG
      THEN s1
      ELSE LET r == ExtractFrames(data, <<>>)
           IN  EmitAll([s1 EXCEPT !.stdoutBuffer = [@ EXCEPT ![c] = r.buf],
                                  !.seen = [@ EXCEPT ![c] = @ \o data]],
                       c, r.frames)

\* DataHandler without the codec check
DataHandlerAnyCodec(st, c, data) ==
  LET s1 == [st EXCEPT !.streamData = PushAll(@, data),
                       !.handled    = Append(@, data)]
      r  == ExtractFrames(s1.stdoutBuffer[c] \o data, <<>>)
  IN  EmitAll([s1 EXCEPT !.stdoutBuffer = [@ EXCEPT ![c] = r.buf],
                         !.seen = [@ EXCEPT ![c] = @ \o data]],
              c, r.frames)

\* the stdout 'data' listener registered by call c, run on chunk data
DataHandler(st, c, data) ==
  LET s1 == [st EXCEPT !.streamData = PushAll(@, data),
                       !.handled    = Append(@, data)]
  IN  IF codec # MJPEG
      THEN s1
      ELSE LET r == ExtractFrames(s1.stdoutBuffer[c] \o data, <<>>)
           IN  EmitAll([s1 EXCEPT !.stdoutBuffer = [@ EXCEPT ![c] = r.buf],
                                  !.seen = [@ EXCEPT ![c] = @ \o data]],
                       c, r.frames)

\* all 'data' listeners of one stdout, in the order they were attached
RECURSIVE RunHandlers(_, _, _)
RunHandlers(st, hs, data) ==
  IF hs = <<>> THEN st
  ELSE RunHandlers(DataHandler(st, Head(hs), data), Tail(hs), data)

\* -------------------------------------------------------------------- Init
Init ==
  /\ codec \in {H264, MJPEG}
  /\ systemModel \in {KnownModel, UnknownModel}
  /\ childProcess = 0
  /\ streams = <<>>
  /\ nCalls = 0
  /\ pc = [c \in Calls |-> "none"]
  /\ promise = [c \in Calls |-> "none"]
  /\ killed = [p \in Calls |-> FALSE]
  /\ onceData = [p \in Calls |-> FALSE]
  /\ onceError = [p \in Calls |-> FALSE]
  /\ handlers = [p \in Calls |-> <<>>]
  /\ stdoutBuffer = [c \in Calls |-> <<>>]
  /\ streamData = [s \in StreamIds |-> <<>>]
  /\ nStreams = 0
  /\ regAt = [s \in StreamIds |-> 0]
  /\ delivered = [p \in Calls |-> 0]
  /\ handled = <<>>
  /\ seen = [c \in Calls |-> <<>>]
  /\ emitted = [c \in Calls |-> <<>>]
  /\ frames = <<>>
  /\ takes = <<>>
  /\ thrown = 0
  /\ errLog = <<>>
  /\ activeAtCall = [c \in Calls |-> FALSE]
  /\ stdoutData = <<>>
  /\ stderrData = <<>>
  /\ spawnResult = [state |-> "pending", kind |-> "none", data |-> <<>>]
  /\ spawnOnce = {"process error", "stdout error", "stderr error"}
  /\ stdoutClosed = FALSE
  /\ spawnEvents = <<>>

\* ----------------------------------------------------------------- actions

\* a process spawned by this camera that was neither killed nor failed
Live(p) ==
  /\ p # 0
  /\ ~killed[p]
  /\ ~\E i \in 1..Len(errLog) : errLog[i].proc = p /\ errLog[i].src = "process"

\* StartCapture resolving its promise as soon as the process is spawned
StartCaptureResolvesAtSpawn ==
  /\ LET c == nCalls + 1 IN
       /\ nCalls' = c
       /\ childProcess' = c
       /\ onceError' = [onceError EXCEPT ![c] = TRUE]
       /\ onceData' = [onceData EXCEPT ![c] = TRUE]
       /\ pc' = [pc EXCEPT ![c] = "await"]
       /\ promise' = [promise EXCEPT ![c] = "resolved"]
       /\ activeAtCall' = [activeAtCall EXCEPT ![c] = Live(childProcess)]
  /\ UNCHANGED spawnVars
  /\ UNCHANGED << codec, systemModel, streams, killed, handlers, stdoutBuffer,
                  streamData, nStreams, regAt, delivered, handled, seen,
                  emitted, frames, takes, thrown, errLog >>

\* startCapture up to the await: spawn, once('error'), stdout.once('data')
StartCapture ==
  /\ LET c == nCalls + 1 IN
       /\ nCalls' = c
       /\ childProcess' = c
       /\ onceError' = [onceError EXCEPT ![c] = TRUE]
       /\ onceData' = [onceData EXCEPT ![c] = TRUE]
       /\ pc' = [pc EXCEPT ![c] = "await"]
       /\ promise' = [promise EXCEPT ![c] = "pending"]
       /\ activeAtCall' = [activeAtCall EXCEPT ![c] = Live(childProcess)]
  /\ UNCHANGED spawnVars
  /\ UNCHANGED << codec, systemModel, streams, killed, handlers, stdoutBuffer,
                  streamData, nStreams, regAt, delivered, handled, seen,
                  emitted, frames, takes, thrown, errLog >>

\* startCapture after the await, getJpegSignature having resolved: the
\* 'data', error and close listeners go on what this.childProcess is now
SignatureResolved(c) ==
  /\ pc[c] = "await"
  /\ SignatureKnown
  /\ pc' = [pc EXCEPT ![c] = "armed"]
  /\ stdoutBuffer' = [stdoutBuffer EXCEPT ![c] = <<>>]
  /\ handlers' = [handlers EXCEPT ![childProcess] = Append(@, c)]
  /\ UNCHANGED spawnVars
  /\ UNCHANGED << codec, systemModel, childProcess, streams, nCalls, promise,
                  killed, onceData, onceError, streamData, nStreams, regAt,
                  delivered, handled, seen, emitted, frames, takes, thrown,
                  errLog, activeAtCall >>

\* startCapture after the await, getJpegSignature having thrown: the catch
SignatureRejected(c) ==
  /\ pc[c] = "await"
  /\ ~SignatureKnown
  /\ pc' = [pc EXCEPT ![c] = "failed"]
  /\ promise' = [promise EXCEPT ![c] = Settle(@, "rejected")]
  /\ UNCHANGED spawnVars
  /\ UNCHANGED << codec, systemModel, childProcess, streams, nCalls, killed,
                  onceData, onceError, handlers, stdoutBuffer, streamData,
                  nStreams, regAt, delivered, handled, seen, emitted, frames,
                  takes, thrown, errLog, activeAtCall >>

RECURSIVE SumTo(_, _)
SumTo(f, n) == IF n = 0 THEN 0 ELSE f[n] + SumTo(f, n - 1)

\* stdout chunks delivered so far by all the processes together
TotalDelivered == SumTo(delivered, nCalls)

\* stdout of process p emits 'data': the once listener of startCapture, then
\* every 'data' listener attached to this stdout
StdoutData(p, data) ==
  /\ p <= nCalls
  /\ delivered' = [delivered EXCEPT ![p] = @ + 1]
  /\ onceData' = [onceData EXCEPT ![p] = FALSE]
  /\ promise' = [promise EXCEPT ![p] =
                   IF onceData[p] THEN Settle(@, "resolved") ELSE @]
  /\ LET st == RunHandlers([streamData |-> streamData, handled |-> handled,
                            stdoutBuffer |-> stdoutBuffer, seen |-> seen,
                            emitted |-> emitted, frames |-> frames,
                            takes |-> takes],
                           handlers[p], data)
     IN  /\ streamData' = st.streamData
         /\ handled' = st.handled
         /\ stdoutBuffer' = st.stdoutBuffer
         /\ seen' = st.seen
         /\ emitted' = st.emitted
         /\ frames' = st.frames
         /\ takes' = st.takes
  /\ UNCHANGED spawnVars
  /\ UNCHANGED << codec, systemModel, childProcess, streams, nCalls, pc,
                  killed, onceError, handlers, nStreams, regAt, thrown,
                  errLog, activeAtCall >>

\* StopCapture leaving the registry as it is
StopCaptureKeepsRegistry ==
  /\ killed' = IF childProcess # 0
               THEN [killed EXCEPT ![childProcess] = TRUE] ELSE killed
  /\ streamData' = PushAll(streamData, Null)
  /\ UNCHANGED spawnVars
  /\ UNCHANGED << codec, systemModel, childProcess, streams, nCalls, pc,
                  promise, onceData, onceError, handlers, stdoutBuffer,
                  nStreams, regAt, delivered, handled, seen, emitted, frames,
                  takes, thrown, errLog, activeAtCall >>

\* stopCapture: kill this.childProcess if set, push null to every stream,
\* empty the registry
StopCapture ==
  /\ killed' = IF childProcess # 0
               THEN [killed EXCEPT ![childProcess] = TRUE] ELSE killed
  /\ streamData' = PushAll(streamData, Null)
  /\ streams' = <<>>
  /\ UNCHANGED spawnVars
  /\ UNCHANGED << codec, systemModel, childProcess, nCalls, pc, promise,
                  onceData, onceError, handlers, stdoutBuffer, nStreams, regAt,
                  delivered, handled, seen, emitted, frames, takes, thrown,
                  errLog, activeAtCall >>

\* CreateStream handing the chunks handled so far to the new stream
CreateStreamReplays ==
  /\ nStreams < MaxStreams
  /\ nStreams' = nStreams + 1
  /\ streams' = Append(streams, nStreams + 1)
  /\ regAt' = [regAt EXCEPT ![nStreams + 1] = Len(handled)]
  /\ streamData' = [streamData EXCEPT ![nStreams + 1] = handled]
  /\ UNCHANGED spawnVars
  /\ UNCHANGED << codec, systemModel, childProcess, nCalls, pc, promise,
                  killed, onceData, onceError, handlers, stdoutBuffer,
                  delivered, handled, seen, emitted, frames, takes,
                  thrown, errLog, activeAtCall >>

\* createStream: a new Readable, pushed onto this.streams
CreateStream ==
  /\ nStreams < MaxStreams
  /\ nStreams' = nStreams + 1
  /\ streams' = Append(streams, nStreams + 1)
  /\ regAt' = [regAt EXCEPT ![nStreams + 1] = Len(handled)]
  /\ UNCHANGED spawnVars
  /\ UNCHANGED << codec, systemModel, childProcess, nCalls, pc, promise,
                  killed, onceData, onceError, handlers, stdoutBuffer,
                  streamData, delivered, handled, seen, emitted, frames, takes,
                  thrown, errLog, activeAtCall >>

\* TakeImage without the codec check
TakeImageAnyCodec ==
  /\ Len(takes) + thrown < MaxTakes
  /\ thrown' = thrown
  /\ takes' = Append(takes, [at |-> Len(frames), listening |-> TRUE,
                             result |-> <<>>])
  /\ UNCHANGED spawnVars
  /\ UNCHANGED << codec, systemModel, childProcess, streams, nCalls, pc,
                  promise, killed, onceData, onceError, handlers, stdoutBuffer,
                  streamData, nStreams, regAt, delivered, handled, seen,
                  emitted, frames, errLog, activeAtCall >>

\* takeImage: throws unless the codec is MJPEG, else once('frame', resolve)
TakeImage ==
  /\ Len(takes) + thrown < MaxTakes
  /\ IF codec # MJPEG
     THEN /\ thrown' = thrown + 1
          /\ takes' = takes
     ELSE /\ thrown' = thrown
          /\ takes' = Append(takes, [at |-> Len(frames), listening |-> TRUE,
                                     result |-> <<>>])
  /\ UNCHANGED spawnVars
  /\ UNCHANGED << codec, systemModel, childProcess, streams, nCalls, pc,
                  promise, killed, onceData, onceError, handlers, stdoutBuffer,
                  streamData, nStreams, regAt, delivered, handled, seen,
                  emitted, frames, errLog, activeAtCall >>

\* the child process emits 'error' (it could not be spawned or killed): the
\* once('error') listener of startCapture calls reject, which does nothing to
\* a settled promise.  A process emits 'error' at most once here.
ProcessError(p) ==
  /\ p <= nCalls
  /\ onceError[p]
  /\ Len(errLog) < MaxErrors
  /\ onceError' = [onceError EXCEPT ![p] = FALSE]
  /\ promise' = [promise EXCEPT ![p] = Settle(@, "rejected")]
  /\ errLog' = Append(errLog,
       [src |-> "process", proc |-> p, at |-> promise[p],
        outcome |-> IF promise[p] = "pending" THEN "rejected" ELSE "dropped"])
  /\ UNCHANGED spawnVars
  /\ UNCHANGED << codec, systemModel, childProcess, streams, nCalls, pc,
                  killed, onceData, handlers, stdoutBuffer, streamData,
                  nStreams, regAt, delivered, handled, seen, emitted, frames,
                  takes, thrown, activeAtCall >>

\* PipeError ending the session as stopCapture does
PipeErrorStops(p, src) ==
  /\ p <= nCalls
  /\ Len(errLog) < MaxErrors
  /\ src = "stderr data" => handlers[p] # <<>>
  /\ errLog' = Append(errLog,
       [src |-> src, proc |-> p, at |-> promise[p],
        outcome |-> IF handlers[p] # <<>> THEN "emitted" ELSE "uncaught"])
  /\ killed' = [killed EXCEPT ![p] = TRUE]
  /\ streamData' = PushAll(streamData, Null)
  /\ streams' = <<>>
  /\ UNCHANGED spawnVars
  /\ UNCHANGED << codec, systemModel, childProcess, nCalls, pc,
                  promise, onceData, onceError, handlers, stdoutBuffer,
                  nStreams, regAt, delivered, handled, seen,
                  emitted, frames, takes, thrown, activeAtCall >>

\* stdout or stderr of process p emits 'error', or stderr emits 'data': each
\* listener attached after the await emits 'error' on the camera; a pipe
\* 'error' with no listener attached is thrown by the event emitter
PipeError(p, src) ==
  /\ p <= nCalls
  /\ Len(errLog) < MaxErrors
  /\ src = "stderr data" => handlers[p] # <<>>
  /\ errLog' = Append(errLog,
       [src |-> src, proc |-> p, at |-> promise[p],
        outcome |-> IF handlers[p] # <<>> THEN "emitted" ELSE "uncaught"])
  /\ UNCHANGED spawnVars
  /\ UNCHANGED << codec, systemModel, childProcess, streams, nCalls, pc,
                  promise, killed, onceData, onceError, handlers, stdoutBuffer,
                  streamData, nStreams, regAt, delivered, handled, seen,
                  emitted, frames, takes, thrown, activeAtCall >>

StdoutError(p) == PipeError(p, "stdout error")
StderrData(p)  == PipeError(p, "stderr data")
StderrError(p) == PipeError(p, "stderr error")

\* ------------------------------------------------------- spawnPromise
\* The state after construction is that of the executor having run with both
\* pipes present: the buffers empty, every listener attached, the promise
\* pending.

\* resolve and reject of the promise of spawnPromise: a settled promise
\* keeps its outcome
SpawnSettle(state, kind, data) ==
  IF spawnResult.state = "pending"
  THEN [state |-> state, kind |-> kind, data |-> data]
  ELSE spawnResult

\* stdout emits 'data': the chunk is concatenated to stdoutData
SpawnStdoutData(data) ==
  /\ Len(spawnEvents) < MaxSpawnEvents
  /\ ~stdoutClosed
  /\ stdoutData' = stdoutData \o data
  /\ spawnEvents' = Append(spawnEvents, [ev |-> "stdout data", data |-> data])
  /\ UNCHANGED << stderrData, spawnResult, spawnOnce, stdoutClosed >>
  /\ UNCHANGED cameraVars

\* stderr emits 'data': the chunk is concatenated to stderrData
SpawnStderrData(data) ==
  /\ Len(spawnEvents) < MaxSpawnEvents
  /\ stderrData' = stderrData \o data
  /\ spawnEvents' = Append(spawnEvents, [ev |-> "stderr data", data |-> data])
  /\ UNCHANGED << stdoutData, spawnResult, spawnOnce, stdoutClosed >>
  /\ UNCHANGED cameraVars

\* the process, stdout or stderr emits 'error': its once listener calls
\* reject(err) and is removed
SpawnError(src) ==
  /\ Len(spawnEvents) < MaxSpawnEvents
  /\ src \in spawnOnce
  /\ spawnOnce' = spawnOnce \ {src}
  /\ spawnResult' = SpawnSettle("rejected", src, <<>>)
  /\ spawnEvents' = Append(spawnEvents, [ev |-> src, data |-> <<>>])
  /\ UNCHANGED << stdoutData, stderrData, stdoutClosed >>
  /\ UNCHANGED cameraVars

SpawnProcessError == SpawnError("process error")
SpawnStdoutError  == SpawnError("stdout error")
SpawnStderrError  == SpawnError("stderr error")

\* SpawnStdoutClose without the check of stderrData
SpawnStdoutCloseResolves ==
  /\ Len(spawnEvents) < MaxSpawnEvents
  /\ ~stdoutClosed
  /\ stdoutClosed' = TRUE
  /\ spawnResult' = SpawnSettle("resolved", "stdout", stdoutData)
  /\ spawnEvents' = Append(spawnEvents, [ev |-> "stdout close", data |-> <<>>])
  /\ UNCHANGED << stdoutData, stderrData, spawnOnce >>
  /\ UNCHANGED cameraVars

\* stdout emits 'close': reject with the stderr text when there is any,
\* resolve with stdoutData otherwise
SpawnStdoutClose ==
  /\ Len(spawnEvents) < MaxSpawnEvents
  /\ ~stdoutClosed
  /\ stdoutClosed' = TRUE
  /\ spawnResult' = IF Len(stderrData) > 0
                    THEN SpawnSettle("rejected", "stderr text", stderrData)
                    ELSE SpawnSettle("resolved", "stdout", stdoutData)
  /\ spawnEvents' = Append(spawnEvents, [ev |-> "stdout close", data |-> <<>>])
  /\ UNCHANGED << stdoutData, stderrData, spawnOnce >>
  /\ UNCHANGED cameraVars

NextSpawn ==
  \/ \E data \in SpawnChunks : SpawnStdoutData(data)
  \/ \E data \in SpawnChunks : SpawnStderrData(data)
  \/ SpawnProcessError
  \/ SpawnStdoutError
  \/ SpawnStderrError
  \/ SpawnStdoutClose

SpecSpawn == Init /\ [][NextSpawn]_vars

\* ---------------------------------------------------------- StreamCamera
\* the calls and events the bounds of the model cap
BoundedStartCapture == nCalls < MaxCalls /\ StartCapture
BoundedStdoutData(p, data) == TotalDelivered < MaxChunks /\ StdoutData(p, data)
SessionStartCapture == nCalls < MaxSessionCalls /\ StartCapture
DemuxStdoutData(p, data) ==
  TotalDelivered < MaxDemuxChunks /\ StdoutData(p, data)

Next ==
  \/ BoundedStartCapture
  \/ \E c \in Calls : SignatureResolved(c)
  \/ \E c \in Calls : SignatureRejected(c)
  \/ \E p \in Calls : \E data \in Chunks : BoundedStdoutData(p, data)
  \/ StopCapture
  \/ CreateStream
  \/ TakeImage
  \/ \E p \in Calls : ProcessError(p)
  \/ \E p \in Calls : StdoutError(p)
  \/ \E p \in Calls : StderrData(p)
  \/ \E p \in Calls : StderrError(p)

Spec == Init /\ [][Next]_vars

\* Parts of Next, each with fewer startCapture calls, for the claims about
\* the consumer streams, about the promise of startCapture, about the errors
\* of the pipes and about the frames.  Each part keeps every action that
\* writes a variable its claims read; the actions it leaves out write only
\* variables (takes and thrown; errLog, promise and onceError; killed,
\* streams, streamData, nStreams and regAt) from which the actions kept
\* compute none of those.

\* starting, stdout data, stopping and the consumer streams
NextFanOut ==
  \/ SessionStartCapture
  \/ \E c \in Calls : SignatureResolved(c)
  \/ \E c \in Calls : SignatureRejected(c)
  \/ \E p \in Calls : \E data \in Chunks : BoundedStdoutData(p, data)
  \/ StopCapture
  \/ CreateStream

SpecFanOut == Init /\ [][NextFanOut]_vars

\* starting, stdout data, stopping and the error events
NextLifecycle ==
  \/ SessionStartCapture
  \/ \E c \in Calls : SignatureResolved(c)
  \/ \E c \in Calls : SignatureRejected(c)
  \/ \E p \in Calls : \E data \in Chunks : BoundedStdoutData(p, data)
  \/ StopCapture
  \/ \E p \in Calls : ProcessError(p)
  \/ \E p \in Calls : StdoutError(p)
  \/ \E p \in Calls : StderrData(p)
  \/ \E p \in Calls : StderrError(p)

SpecLifecycle == Init /\ [][NextLifecycle]_vars

\* starting, stdout data and takeImage, with three bytes that are no
\* signature and a chunk of three signatures with payload bytes after each
NextScenario ==
  \/ SessionStartCapture
  \/ \E c \in Calls : SignatureResolved(c)
  \/ \E c \in Calls : SignatureRejected(c)
  \/ \E p \in Calls : \E data \in ScenarioChunks : DemuxStdoutData(p, data)
  \/ TakeImage

SpecScenario == Init /\ [][NextScenario]_vars

\* starting, stdout data, stopping, the consumer streams and the errors of
\* the pipes, with a cap on the chunks, streams and errors together
SessionEvents == TotalDelivered + nStreams + Len(errLog)

SessionStdoutData(p, data) ==
  SessionEvents < MaxSessionEvents /\ BoundedStdoutData(p, data)

SessionCreateStream == SessionEvents < MaxSessionEvents /\ CreateStream

SessionStdoutError(p) == SessionEvents < MaxSessionEvents /\ StdoutError(p)

SessionStderrData(p) == SessionEvents < MaxSessionEvents /\ StderrData(p)

SessionStderrError(p) == SessionEvents < MaxSessionEvents /\ StderrError(p)

NextRuntimeError ==
  \/ SessionStartCapture
  \/ \E c \in Calls : SignatureResolved(c)
  \/ \E c \in Calls : SignatureRejected(c)
  \/ \E p \in Calls : \E data \in Chunks : SessionStdoutData(p, data)
  \/ StopCapture
  \/ SessionCreateStream
  \/ \E p \in Calls : SessionStdoutError(p)
  \/ \E p \in Calls : SessionStderrData(p)
  \/ \E p \in Calls : SessionStderrError(p)

SpecRuntimeError == Init /\ [][NextRuntimeError]_vars

\* starting, stdout data and takeImage, with more kinds of chunk and more
\* of them
NextDemux ==
  \/ SessionStartCapture
  \/ \E c \in Calls : SignatureResolved(c)
  \/ \E c \in Calls : SignatureRejected(c)
  \/ \E p \in Calls : \E data \in DemuxChunks : DemuxStdoutData(p, data)
  \/ TakeImage

SpecDemux == Init /\ [][NextDemux]_vars

TypeOK ==
  /\ childProcess \in 0..MaxCalls
  /\ nCalls \in 0..MaxCalls

\* ------------------------------------------------------------------ claims

\* call c reached line 185: process c exists
Spawned(c) == c <= nCalls

\* the child process of call c has emitted 'error'
ProcessErrored(c) ==
  \E i \in 1..Len(errLog) : errLog[i].proc = c /\ errLog[i].src = "process"

\* the offsets at which the signature occurs in buf, and the n-th of them
Occurrences(buf) ==
  { i \in 0..(Len(buf) - Len(JpegSignature)) :
      SubSeq(buf, i + 1, i + Len(JpegSignature)) = JpegSignature }
NthOccurrence(buf, n) ==
  CHOOSE i \in Occurrences(buf) :
    Cardinality({ j \in Occurrences(buf) : j < i }) = n - 1

\* the frames of a byte stream: the slices between consecutive occurrences
FramesOf(buf) ==
  LET k == Cardinality(Occurrences(buf))
  IN  [n \in 1..(IF k = 0 THEN 0 ELSE k - 1) |->
         SubSeq(buf, NthOccurrence(buf, n) + 1, NthOccurrence(buf, n + 1))]

\* C1: in MJPEG mode the frames a data handler has emitted are, in order,
\* the slices between consecutive signature occurrences of the concatenation
\* of the chunks it has handled (k occurrences give max(k-1, 0) frames),
\* whatever the chunk boundaries are
FrameBoundaries ==
  codec = MJPEG => \A c \in Calls : emitted[c] = FramesOf(seen[c])

\* a handler was fed a signature cut in two by a chunk boundary and then a
\* chunk with two signatures, and has emitted the two frames
FrameBoundariesWitness ==
  /\ codec = MJPEG
  /\ handled = << Noise \o SubSeq(JpegSignature, 1, 3),
                  SubSeq(JpegSignature, 4, 7) \o Noise,
                  JpegSignature \o Noise \o JpegSignature >>
  /\ emitted[1] = << JpegSignature \o Noise, JpegSignature \o Noise >>

\* C2: every registered stream holds exactly the chunks handled since it was
\* created, unmodified and in the order they were handled, in both modes
FanOutComplete ==
  \A s \in 1..nStreams :
    InRegistry(s) =>
      streamData[s] = SubSeq(handled, regAt[s] + 1, Len(handled))

\* two registered streams have both received two different chunks
FanOutCompleteWitness ==
  /\ nStreams = 2 /\ InRegistry(1) /\ InRegistry(2)
  /\ Len(streamData[1]) = 2
  /\ streamData[1][1] # streamData[1][2]
  /\ streamData[2] = streamData[1]

\* C3: a startCapture made while a process of an earlier startCapture is
\* live is rejected and spawns no process
SecondStartRejected ==
  \A c \in Calls :
    activeAtCall[c] => promise[c] = "rejected" /\ ~Spawned(c)

\* the number of end-of-stream signals stream s has received
RECURSIVE CountNull(_)
CountNull(d) ==
  IF d = <<>> THEN 0
  ELSE (IF Head(d) = Null THEN 1 ELSE 0) + CountNull(Tail(d))

\* C4: a stream still in the registry has received no end-of-stream signal,
\* and a stream that has left it (stopCapture ran after its creation) has
\* received exactly one, as the last thing pushed to it
EndOfStreamOnce ==
  \A s \in 1..nStreams :
    IF InRegistry(s)
    THEN CountNull(streamData[s]) = 0
    ELSE /\ CountNull(streamData[s]) = 1
         /\ streamData[s][Len(streamData[s])] = Null

\* stopCapture has run twice, before any chunk was handled and after one:
\* the first stream was closed by the first run, the second by the second
EndOfStreamOnceWitness ==
  /\ nStreams = 2 /\ streams = <<>> /\ killed[1]
  /\ regAt[1] = 0 /\ streamData[1] = << Null >>
  /\ regAt[2] = 0 /\ Len(streamData[2]) = 2 /\ streamData[2][2] = Null

\* the promise of each startCapture is what the events so far make it
StartSettlementNow ==
  \A c \in 1..nCalls :
    /\ promise[c] \in {"pending", "resolved", "rejected"}
    /\ promise[c] = "resolved" => delivered[c] > 0
    /\ promise[c] = "rejected" => ProcessErrored(c) \/ pc[c] = "failed"
    /\ promise[c] = "pending" <=>
         delivered[c] = 0 /\ ~ProcessErrored(c) /\ pc[c] # "failed"

\* C5: the promise of startCapture is resolved only once its process has
\* delivered a stdout chunk, rejected only after a process 'error' or a
\* failed signature lookup, pending exactly while none of these has happened,
\* and once settled it never changes
StartSettlement ==
  /\ []StartSettlementNow
  /\ [][\A c \in Calls :
          promise[c] \in {"resolved", "rejected"} => promise'[c] = promise[c]]_vars

\* a promise resolved by the first chunk, whose process has then emitted
\* 'error'
StartSettlementWitness ==
  promise[1] = "resolved" /\ delivered[1] > 0 /\ ProcessErrored(1)

\* C6: with MJPEG a failed signature lookup leaves no spawned process, and
\* with H264 no startCapture fails on the signature lookup
SignatureFailureBeforeSpawn ==
  \A c \in Calls :
    /\ codec = MJPEG /\ pc[c] = "failed" => ~Spawned(c)
    /\ codec = H264 => pc[c] # "failed"

\* C7: every error event that a process or its pipes raised while the
\* startCapture that spawned it was pending or resolved has rejected that
\* startCapture or has been emitted as 'error' (an error thrown by the event
\* emitter for want of a listener counts as surfaced too)
ErrorsSurfaced ==
  \A i \in 1..Len(errLog) :
    errLog[i].at \in {"pending", "resolved"} =>
      errLog[i].outcome \in {"rejected", "emitted", "uncaught"}

\* C8: with a codec other than MJPEG no takeImage call has registered a
\* 'frame' listener or returned a promise: each of them threw
TakeImagePrecondition ==
  codec # MJPEG => takes = <<>>

\* takeImage has thrown on an H264 camera that is capturing
TakeImagePreconditionWitness ==
  codec = H264 /\ thrown = 1 /\ promise[1] = "resolved" /\ pc[1] = "armed"

\* C9: a takeImage promise is pending while no frame has been emitted since
\* the call, and otherwise holds the first frame emitted after the call
NextFrameOnly ==
  \A i \in 1..Len(takes) :
    IF Len(frames) > takes[i].at
    THEN ~takes[i].listening /\ takes[i].result = frames[takes[i].at + 1]
    ELSE takes[i].listening /\ takes[i].result = <<>>

\* a takeImage made after one frame, followed by two more frames, the frame
\* it got differing from the one before and the one after
NextFrameOnlyWitness ==
  /\ Len(takes) = 1 /\ takes[1].at = 1 /\ Len(frames) = 3
  /\ takes[1].result = frames[2]
  /\ frames[1] # frames[2] /\ frames[3] # frames[2]

\* C10: with H264 no frame is ever emitted, nothing is accumulated, and every
\* registered stream holds the handled chunks as they arrived
PlainModeBypass ==
  codec = H264 =>
    /\ frames = <<>>
    /\ \A c \in Calls : emitted[c] = <<>> /\ stdoutBuffer[c] = <<>>
    /\ \A s \in 1..nStreams :
         InRegistry(s) =>
           \A i \in 1..Len(streamData[s]) :
             streamData[s][i] = handled[regAt[s] + i]

\* an H264 camera has handled two chunks with two signatures each and pushed
\* them to a registered stream
PlainModeBypassWitness ==
  /\ codec = H264
  /\ handled = << JpegSignature \o Noise \o JpegSignature,
                  JpegSignature \o Noise \o JpegSignature >>
  /\ InRegistry(1) /\ streamData[1] = handled

\* C11: a stream holds no chunk handled before it was created: whether it is
\* still registered or already ended, its i-th item, when a chunk, is the
\* i-th chunk handled after its creation
NoBackfill ==
  \A s \in 1..nStreams :
    \A i \in 1..Len(streamData[s]) :
      streamData[s][i] # Null =>
        /\ regAt[s] + i <= Len(handled)
        /\ streamData[s][i] = handled[regAt[s] + i]

\* a stream created after the first chunk was handled holds the second chunk
\* alone, which differs from the first
NoBackfillWitness ==
  /\ nStreams >= 1 /\ regAt[1] = 1 /\ Len(handled) = 2
  /\ handled[1] # handled[2]
  /\ streamData[1] = << handled[2] >>

\* the frames of a sequence, one after the other
RECURSIVE Concat(_)
Concat(fs) == IF fs = <<>> THEN <<>> ELSE Head(fs) \o Concat(Tail(fs))

\* C12: with MJPEG every frame a handler emitted begins with the signature,
\* and the frames together are the bytes it handled from the first occurrence
\* of the signature on, so none of the bytes before that occurrence is in a
\* frame
LeadingBytesDropped ==
  codec = MJPEG =>
    \A c \in Calls :
      /\ \A i \in 1..Len(emitted[c]) :
           /\ Len(emitted[c][i]) >= Len(JpegSignature)
           /\ SubSeq(emitted[c][i], 1, Len(JpegSignature)) = JpegSignature
      /\ emitted[c] # <<>> =>
           LET first == IndexOf(seen[c], JpegSignature, 0)
               all   == Concat(emitted[c])
           IN  /\ first >= 0
               /\ all = SubSeq(seen[c], first + 1, first + Len(all))

\* the bytes handled begin with bytes that are not a signature, the signature
\* came split over two chunks, and a frame was emitted
LeadingBytesDroppedWitness ==
  /\ codec = MJPEG
  /\ Len(handled) >= 2
  /\ IndexOf(handled[1], JpegSignature, 0) = -1
  /\ IndexOf(seen[1], JpegSignature, 0) = 1
  /\ emitted[1] # <<>>

\* the process of call c emitted 'error' while the promise of c was pending,
\* and has written nothing to stdout
LaunchFailed(c) ==
  /\ delivered[c] = 0
  /\ \E i \in 1..Len(errLog) :
       errLog[i].proc = c /\ errLog[i].src = "process"
         /\ errLog[i].at = "pending"

\* C13: after a launch failure the promise of startCapture is rejected and
\* the camera holds no handle of the process that failed
LaunchFailureLeavesNothing ==
  \A c \in Calls :
    LaunchFailed(c) => promise[c] = "rejected" /\ childProcess # c

\* this step is an 'error' of stdout or of stderr, or 'data' of stderr
PipeErrorStep ==
  /\ Len(errLog') = Len(errLog) + 1
  /\ errLog'[Len(errLog')].src # "process"

\* a pipe of process p has raised an error that its listener emitted
PipeErrored(p) ==
  \E i \in 1..Len(errLog) :
    errLog[i].proc = p /\ errLog[i].src # "process"
      /\ errLog[i].outcome = "emitted"

\* C14: an error of a pipe leaves the registry, the streams, the processes,
\* the handlers and their buffers as they are, and a chunk that an armed
\* process writes after such an error is still handled: pushed to every
\* registered stream and, with MJPEG, added to the bytes its handlers cut
\* into frames
RuntimeErrorKeepsSession ==
  [][ /\ PipeErrorStep =>
           /\ streams' = streams /\ streamData' = streamData
           /\ killed' = killed /\ childProcess' = childProcess
           /\ handlers' = handlers /\ stdoutBuffer' = stdoutBuffer
           /\ frames' = frames
      /\ \A p \in Calls :
           (PipeErrored(p) /\ delivered'[p] > delivered[p]) =>
             /\ Len(handled') = Len(handled) + Len(handlers[p])
             /\ \A s \in 1..nStreams :
                  InRegistry(s) =>
                    streamData'[s] =
                      streamData[s] \o
                        SubSeq(handled', Len(handled) + 1, Len(handled'))
             /\ \A i \in 1..Len(handlers[p]) :
                  /\ handled'[Len(handled) + i] = handled'[Len(handled')]
                  /\ codec = MJPEG =>
                       seen'[handlers[p][i]] =
                         seen[handlers[p][i]] \o handled'[Len(handled')]
    ]_vars

\* the pipe error was emitted by a listener before the process wrote anything
\* (the promise was pending), and the chunk written since is in the stream
\* that was registered, which is still registered, of a process not killed
RuntimeErrorKeepsSessionWitness ==
  /\ Len(errLog) = 1 /\ errLog[1].proc = 1
  /\ errLog[1].src = "stdout error"
  /\ errLog[1].outcome = "emitted" /\ errLog[1].at = "pending"
  /\ ~killed[1]
  /\ Len(handled) = 1
  /\ InRegistry(1) /\ streamData[1] = handled

\* a handler has handled "AAA" and then "SIG1dataSIG2moredataSIG3", and
\* nothing else
ScenarioHandled ==
  /\ codec = MJPEG
  /\ handled = << ScenarioLead,
                  ScenarioFrame1 \o ScenarioFrame2 \o ScenarioFrame3 >>
  /\ seen[1] = ScenarioLead \o ScenarioFrame1 \o ScenarioFrame2
                  \o ScenarioFrame3

\* C15, as claimed: after "AAA" and "SIG1dataSIG2moredataSIG3" the first frame
\* emitted is SIG1data and the buffer holds SIG2moredataSIG3
ScenarioKeepsSecondFrame ==
  ScenarioHandled =>
    /\ emitted[1] # <<>> /\ emitted[1][1] = ScenarioFrame1
    /\ stdoutBuffer[1] = ScenarioFrame2 \o ScenarioFrame3

\* C15: after "AAA" and "SIG1dataSIG2moredataSIG3" the frames emitted are
\* SIG1data and SIG2moredata, and the buffer holds SIG3
ScenarioEmitsTwoFrames ==
  ScenarioHandled =>
    /\ emitted[1] = << ScenarioFrame1, ScenarioFrame2 >>
    /\ stdoutBuffer[1] = ScenarioFrame3

\* the two chunks have been handled, in this order, and the buffer is not
\* empty
ScenarioEmitsTwoFramesWitness ==
  ScenarioHandled /\ Len(frames) = 2 /\ stdoutBuffer[1] # <<>>

\* C16: every chunk a process writes to stdout is handled: it is pushed to
\* every stream registered when it arrives and, with MJPEG, added to the bytes
\* a handler cuts into frames
NoChunkLost ==
  [][ \A p \in Calls :
        delivered'[p] > delivered[p] =>
          /\ Len(handled') > Len(handled)
          /\ \A s \in 1..nStreams :
               InRegistry(s) =>
                 /\ Len(streamData'[s]) > Len(streamData[s])
                 /\ streamData'[s][Len(streamData'[s])]
                      = handled'[Len(handled')]
          /\ codec = MJPEG => \E c \in Calls : seen'[c] # seen[c]
    ]_vars

\* the process of call c was spawned and has neither been sent a signal by
\* kill() nor failed with 'error'
Unterminated(c) == Spawned(c) /\ ~killed[c] /\ ~ProcessErrored(c)

\* C17: at most one process is un-terminated, and it is the one the camera
\* holds the handle of: a process whose handle was replaced has been killed
OneProcessAtMost ==
  /\ Cardinality({ c \in Calls : Unterminated(c) }) <= 1
  /\ \A c \in Calls : Unterminated(c) => childProcess = c

\* C18, as claimed: with MJPEG the buffer of a handler is empty or begins with
\* the signature
BufferEmptyOrSignature ==
  codec = MJPEG =>
    \A c \in Calls :
      \/ stdoutBuffer[c] = <<>>
      \/ /\ Len(stdoutBuffer[c]) >= Len(JpegSignature)
         /\ SubSeq(stdoutBuffer[c], 1, Len(JpegSignature)) = JpegSignature

\* C18: with MJPEG the buffer of a handler holds no occurrence of the
\* signature, and then every byte handled so far, or it begins with the
\* signature, which occurs in it that once
BufferSignatureAtFront ==
  codec = MJPEG =>
    \A c \in Calls :
      IF Occurrences(seen[c]) = {}
      THEN stdoutBuffer[c] = seen[c]
      ELSE Occurrences(stdoutBuffer[c]) = {0}

\* a buffer of bytes without a signature, and later one that begins with the
\* signature after bytes before it were dropped
BufferSignatureAtFrontWitness ==
  /\ codec = MJPEG
  /\ Len(handled) = 2
  /\ IndexOf(handled[1], JpegSignature, 0) = -1
  /\ IndexOf(seen[1], JpegSignature, 0) = 1
  /\ Occurrences(stdoutBuffer[1]) = {0}
  /\ Len(stdoutBuffer[1]) > Len(JpegSignature)

\* C19: a chunk written by a process that stopCapture has killed emits no
\* frame and is pushed to no stream, and no stream holds anything after its
\* end-of-stream item
StoppedProcessSilent ==
  [][ /\ \A p \in Calls :
           (killed[p] /\ delivered'[p] > delivered[p]) =>
             frames' = frames /\ streamData' = streamData
      /\ \A s \in 1..nStreams :
           (streamData[s] # <<>> /\ streamData[s][Len(streamData[s])] = Null)
             => streamData'[s] = streamData[s]
    ]_vars

\* the events of evs that are data of the pipe named by ev, one after the
\* other
RECURSIVE DataOf(_, _)
DataOf(evs, ev) ==
  IF evs = <<>> THEN <<>>
  ELSE (IF Head(evs).ev = ev THEN Head(evs).data ELSE <<>>)
         \o DataOf(Tail(evs), ev)

\* the first event, if any, at which the promise of spawnPromise is to settle:
\* an 'error' or the 'close' of stdout
SettlingEvents ==
  { i \in 1..Len(spawnEvents) :
      spawnEvents[i].ev \notin {"stdout data", "stderr data"} }

\* C20: the promise of spawnPromise is pending until the first 'error' or
\* 'close'; an 'error' first rejects it with that error; 'close' first
\* rejects it with the stderr bytes written before, when there are any, and
\* resolves it with the stdout bytes written before, in order, otherwise;
\* nothing that happens later changes the outcome
SpawnSettlesOnce ==
  IF SettlingEvents = {}
  THEN spawnResult.state = "pending"
  ELSE LET i      == Min(SettlingEvents)
           before == SubSeq(spawnEvents, 1, i - 1)
       IN  IF spawnEvents[i].ev # "stdout close"
           THEN spawnResult = [state |-> "rejected",
                               kind |-> spawnEvents[i].ev, data |-> <<>>]
           ELSE IF DataOf(before, "stderr data") # <<>>
                THEN spawnResult = [state |-> "rejected",
                                    kind |-> "stderr text",
                                    data |-> DataOf(before, "stderr data")]
                ELSE spawnResult = [state |-> "resolved", kind |-> "stdout",
                                    data |-> DataOf(before, "stdout data")]

\* two different chunks of stdout, then 'close', then an 'error' of the
\* process: the promise is resolved with the two chunks in their order
SpawnSettlesOnceWitness ==
  /\ Len(spawnEvents) = 4
  /\ spawnEvents[1].ev = "stdout data" /\ spawnEvents[2].ev = "stdout data"
  /\ spawnEvents[1].data # spawnEvents[2].data
  /\ spawnEvents[3].ev = "stdout close"
  /\ spawnEvents[4].ev = "process error"
  /\ spawnResult.state = "resolved"
  /\ spawnResult.data = spawnEvents[1].data \o spawnEvents[2].data

====
